---- MODULE Spec2Model ----
(* Model of scripts/generate_libelles.py: the notation rewriter              *)
(* (ValueReplacer), the per-file store (TranslationLangNs), the index of     *)
(* stores (TranslationData) and the batch run (FillLocalesTranslations,      *)
(* generate_libelles).                                                       *)
(* A Python str is a sequence of one-character strings.  A Python dict is a  *)
(* sequence of <<key, value>> pairs with distinct keys, in insertion order.  *)
EXTENDS Integers, Sequences, FiniteSets, TLC

VARIABLES
    rin,      \* ValueReplacer.replace: the argument `string`
    rstr,     \* ValueReplacer.replace / replaceStartEnd: `replacedStr`
    rpc,      \* position in replace: "idle", "nl", "check", "loop", "done"
    rk,       \* which of the four replaceStartEnd calls of replace is running
    rcnt,     \* replaceStartEnd: `replacedCount`
    rtrace,   \* history: the string after the newline step and after each call
    overwrite,     \* FillLocalesTranslations.overwrite
    disk,          \* the locales root: its sub-directories and its .yml files
    translations,  \* TranslationData.translations: lang -> section -> store
    pc,            \* position in generate_libelles
    disk0,         \* history: the locales root before the run
    written,       \* history: the files opened for writing by save
    log,           \* history: the spreadsheet rows read, and the calls made for each
    prev           \* history: translations before the last row was processed

rvars == <<rin, rstr, rpc, rk, rcnt, rtrace>>
runvars == <<overwrite, disk, translations, pc, disk0, written, log, prev>>
vars == <<rvars, runvars>>

----------------------------------------------------------------------------
(* Bounds *)

\* Inputs of the rewriter are concatenations of at most MaxFrags fragments.
MaxFrags == 3

\* The spreadsheet has at most MaxRows data rows.
MaxRows == 2

----------------------------------------------------------------------------
(* Python str operations *)

\* s[i:i+len(n)] == n  (positions are 1-based here)
StartsAt(s, n, i) ==
    /\ i >= 1
    /\ i + Len(n) - 1 <= Len(s)
    /\ \A j \in 1..Len(n) : s[i + j - 1] = n[j]

\* c in s, for a single character c
HasChar(s, c) == \E i \in 1..Len(s) : s[i] = c

\* s.find(n, from): the lowest match position >= from, 0 when there is none
Find(s, n, from) ==
    LET hits == {i \in from..(Len(s) - Len(n) + 1) : StartsAt(s, n, i)}
    IN  IF hits = {} THEN 0
        ELSE CHOOSE i \in hits : \A j \in hits : i <= j

\* n in s
In(n, s) == Find(s, n, 1) # 0

RECURSIVE CountFrom(_, _, _)
CountFrom(s, n, from) ==
    LET i == Find(s, n, from)
    IN  IF i = 0 THEN 0 ELSE 1 + CountFrom(s, n, i + Len(n))

\* s.count(n): non-overlapping occurrences, scanned left to right
Count(s, n) == CountFrom(s, n, 1)

\* s.replace(n, r, 1)
ReplaceFirst(s, n, r) ==
    LET i == Find(s, n, 1)
    IN  IF i = 0 THEN s
        ELSE SubSeq(s, 1, i - 1) \o r \o SubSeq(s, i + Len(n), Len(s))

RECURSIVE ReplaceAllFrom(_, _, _, _)
ReplaceAllFrom(s, n, r, from) ==
    LET i == Find(s, n, from)
    IN  IF i = 0 THEN SubSeq(s, from, Len(s))
        ELSE SubSeq(s, from, i - 1) \o r \o ReplaceAllFrom(s, n, r, i + Len(n))

\* s.replace(n, r)
ReplaceAll(s, n, r) == ReplaceAllFrom(s, n, r, 1)

----------------------------------------------------------------------------
(* ValueReplacer *)

NL == "\n"
brTag == <<"<", "b", "r", " ", "/", ">">>

startBoldHtml == <<"<", "s", "t", "r", "o", "n", "g", ">">>
endBoldHtml == <<"<", "/", "s", "t", "r", "o", "n", "g", ">">>
boldNotation == <<"*", "*">>

startOblique ==
    <<"<", "s", "p", "a", "n", " ", "c", "l", "a", "s", "s", "=", "\"",
      "_", "p", "a", "l", "e", " ", "_", "o", "b", "l", "i", "q", "u", "e",
      "\"", ">">>
endOblique == <<"<", "/", "s", "p", "a", "n", ">">>
obliqueNotation == <<"_", "_">>

startGreen ==
    <<"<", "s", "p", "a", "n", " ", "s", "t", "y", "l", "e", "=", "\"",
      "c", "o", "l", "o", "r", ":", " ", "g", "r", "e", "e", "n", ";",
      "\"", ">">>
endGreen == <<"<", "/", "s", "p", "a", "n", ">">>
greenNotation == <<"_", "g", "r", "e", "e", "n", "_">>

startRed ==
    <<"<", "s", "p", "a", "n", " ", "s", "t", "y", "l", "e", "=", "\"",
      "c", "o", "l", "o", "r", ":", " ", "r", "e", "d", ";", "\"", ">">>
endRed == <<"<", "/", "s", "p", "a", "n", ">">>
redNotation == <<"_", "r", "e", "d", "_">>

\* The four replaceStartEnd calls of replace, in the order replace makes them.
Rules ==
    << [notation |-> boldNotation, start |-> startBoldHtml, end |-> endBoldHtml],
       [notation |-> obliqueNotation, start |-> startOblique, end |-> endOblique],
       [notation |-> greenNotation, start |-> startGreen, end |-> endGreen],
       [notation |-> redNotation, start |-> startRed, end |-> endRed] >>

NRules == Len(Rules)

\* variant of ShouldReplace without the test of the count
ShouldReplaceAnyCount(string, notation) == In(notation, string)

\* replaceStartEnd's guard: the notation occurs, an even number of times
ShouldReplace(string, notation) ==
    In(notation, string) /\ Count(string, notation) % 2 = 0

\* variant of replaceWith that never alternates
replaceWithAlwaysStart(replacedCount, startReplaced, endReplaced) == startReplaced

\* replaceStartEnd's choice of tag for the next occurrence
replaceWith(replacedCount, startReplaced, endReplaced) ==
    IF replacedCount % 2 = 0 THEN startReplaced ELSE endReplaced

\* One iteration of replaceStartEnd's while loop.
LoopBody(replacedStr, notation, startReplaced, endReplaced, replacedCount) ==
    ReplaceFirst(replacedStr, notation,
                 replaceWith(replacedCount, startReplaced, endReplaced))

RECURSIVE WhileLoop(_, _, _, _, _)
WhileLoop(replacedStr, notation, startReplaced, endReplaced, replacedCount) ==
    IF In(notation, replacedStr)
    THEN WhileLoop(LoopBody(replacedStr, notation, startReplaced, endReplaced,
                            replacedCount),
                   notation, startReplaced, endReplaced, replacedCount + 1)
    ELSE replacedStr

replaceStartEnd(string, notation, startReplaced, endReplaced) ==
    IF ShouldReplace(string, notation)
    THEN WhileLoop(string, notation, startReplaced, endReplaced, 0)
    ELSE string

RECURSIVE ApplyRules(_, _)
ApplyRules(s, k) ==
    IF k > NRules THEN s
    ELSE ApplyRules(replaceStartEnd(s, Rules[k].notation, Rules[k].start,
                                    Rules[k].end), k + 1)

replace(string) == ApplyRules(ReplaceAll(string, <<NL>>, brTag), 1)

----------------------------------------------------------------------------
(* Python dict: a sequence of <<key, value>> pairs, in insertion order *)

Keys(d) == {d[i][1] : i \in 1..Len(d)}

Has(d, k) == k \in Keys(d)

Get(d, k) == d[CHOOSE i \in 1..Len(d) : d[i][1] = k][2]

\* d[k] = v: an existing key keeps its place, a new key goes last
Put(d, k, v) ==
    IF Has(d, k)
    THEN [i \in 1..Len(d) |-> IF d[i][1] = k THEN <<k, v>> ELSE d[i]]
    ELSE Append(d, <<k, v>>)

----------------------------------------------------------------------------
(* TranslationLangNs *)

\* A stored value is its text and the class that carries its scalar style:
\* "plain" (str), "folded" (FoldedScalarString), "literal" (LiteralScalarString).
PyStr(text) == [text |-> text, style |-> "plain"]

\* stringToYaml's length limit
FoldLimit == 76

nomPlaceholder == <<"[", "n", "o", "m", "]">>
nicknameToken == <<"{", "{", "n", "i", "c", "k", "n", "a", "m", "e", "}", "}">>

\* stringToYaml returns a new FoldedScalarString for a text with a newline or
\* longer than the limit, and its argument itself otherwise
stringToYaml(str) ==
    IF HasChar(str.text, NL) THEN [text |-> str.text, style |-> "folded"]
    ELSE IF Len(str.text) > FoldLimit THEN [text |-> str.text, style |-> "folded"]
    ELSE str

\* TranslationLangNs(inputFile)
NewStore(inputFile) == [file |-> inputFile, data |-> <<>>, modified |-> FALSE]

\* A spreadsheet cell: empty (None), a string, or a number.
NoneCell == [t |-> "none"]
NumCell == [t |-> "num"]
StrCell(s) == [t |-> "str", s |-> s]

\* variant of KeepsExisting with the test of overwrite inverted
KeepsExistingInverted(store, path, ow) == ow /\ Has(store.data, path)

\* addTranslation's early return: the key exists and overwrite is off
KeepsExisting(store, path, ow) == ~ow /\ Has(store.data, path)

\* the string addTranslation stores for a str value
ProcessedDirect(value, keepMarkdown) ==
    LET named == ReplaceAll(value, nomPlaceholder, nicknameToken)
    IN  IF keepMarkdown THEN named ELSE replace(named)

\* The texts of the cells a run may read, and of the properties' calls.
Bienvenue == <<"*", "*", "B", "i", "e", "n", "v", "e", "n", "u", "e", "*", "*">>
StrongBienvenue ==
    <<"<", "s", "t", "r", "o", "n", "g", ">", "B", "i", "e", "n", "v", "e", "n",
      "u", "e", "<", "/", "s", "t", "r", "o", "n", "g", ">">>
Welcome == <<"W", "e", "l", "c", "o", "m", "e">>
Ancien == <<"A", "n", "c", "i", "e", "n">>
Salut == <<"S", "a", "l", "u", "t", " ">>
SalutNom == Salut \o nomPlaceholder \o <<NL>>

\* a text of exactly FoldLimit characters, and one of FoldLimit + 1
AtLimit == [i \in 1..FoldLimit |-> "x"]
OverLimit == Append(AtLimit, "x")

FrCells == {NoneCell, NumCell, StrCell(<<>>), StrCell(Bienvenue)}
EnCells == {NoneCell, StrCell(Welcome), StrCell(OverLimit)}

KnownTexts == {c.s : c \in {x \in FrCells \cup EnCells : x.t = "str"}} \cup {SalutNom}

\* ProcessedDirect of the known texts, computed once: <<argument, result>> pairs
ProcessedOfKnown ==
    {<<a, ProcessedDirect(a[1], a[2])>> : a \in KnownTexts \X BOOLEAN}

Processed(value, keepMarkdown) ==
    IF value \in KnownTexts
    THEN (CHOOSE p \in ProcessedOfKnown : p[1] = <<value, keepMarkdown>>)[2]
    ELSE ProcessedDirect(value, keepMarkdown)

\* variant of Stored that keeps the value of a key already held
StoredFirstWins(store, path, text) ==
    IF Has(store.data, path) THEN [store EXCEPT !.modified = TRUE]
    ELSE [store EXCEPT !.data = Put(store.data, path, stringToYaml(PyStr(text))),
                       !.modified = TRUE]

\* the store after addTranslation's two assignments
Stored(store, path, text) ==
    [store EXCEPT !.data = Put(store.data, path, stringToYaml(PyStr(text))),
                  !.modified = TRUE]

\* TranslationLangNs.addTranslation: the store afterwards, and whether it raised
\* (a value that is no str has no replace method)
LangNsAddTranslation(store, path, value, ow, keepMarkdown) ==
    IF KeepsExisting(store, path, ow)
    THEN [store |-> store, raised |-> FALSE]
    ELSE IF value.t # "str"
         THEN [store |-> store, raised |-> TRUE]
         ELSE [store |-> Stored(store, path, Processed(value.s, keepMarkdown)),
               raised |-> FALSE]

\* The content of a .yml file: unparsable, or a mapping whose values carry the
\* scalar style they are written in; header: the three comment lines of save.
BadYaml == [kind |-> "bad"]
Yaml(header, entries) == [kind |-> "yaml", header |-> header, entries |-> entries]

\* yaml.load (round-trip mode) followed by the loop of loadCurrentTranslations
RECURSIVE LoadEntries(_, _)
LoadEntries(entries, i) ==
    IF i = 0 THEN <<>>
    ELSE Put(LoadEntries(entries, i - 1), entries[i][1], stringToYaml(entries[i][2]))

\* TranslationLangNs.loadCurrentTranslations on a store bound to a file
LangNsLoad(store, content) ==
    IF content.kind = "bad"
    THEN [store |-> store, raised |-> TRUE]
    ELSE [store |-> [store EXCEPT !.data = LoadEntries(content.entries,
                                                        Len(content.entries))],
          raised |-> FALSE]

\* open(self.file, "w") succeeds when the file's directory exists
CanOpenForWrite(d, file) == file[1] \in d.dirs

\* what save writes: the header and yaml.dump(self.data)
Dump(store) == Yaml(TRUE, store.data)

\* TranslationLangNs.save on the disk d
LangNsSave(store, d, w) ==
    IF ~store.modified
    THEN [disk |-> d, written |-> w, raised |-> FALSE]
    ELSE IF ~CanOpenForWrite(d, store.file)
         THEN [disk |-> d, written |-> w, raised |-> TRUE]
         ELSE [disk |-> [d EXCEPT !.files =
                            [f \in DOMAIN d.files \cup {store.file} |->
                                IF f = store.file THEN Dump(store) ELSE d.files[f]]],
               written |-> w \cup {store.file},
               raised |-> FALSE]

----------------------------------------------------------------------------
(* TranslationData *)

\* TranslationData.addTranslations
AddTranslations(trans, lang, section, store) ==
    LET t1 == IF ~Has(trans, lang) THEN Put(trans, lang, <<>>) ELSE trans
    IN  Put(t1, lang, Put(Get(t1, lang), section, store))

\* os.path.join(localesPath, lang, section + ".yml")
StoreFile(lang, section) == <<lang, section>>

\* variant of TargetStore that creates a store whether one is registered or not
TargetStoreAlwaysNew(trans, lang, section) == NewStore(StoreFile(lang, section))

\* the store addTranslation delegates to: the registered one, or a new one
TargetStore(trans, lang, section) ==
    IF Has(trans, lang) /\ Has(Get(trans, lang), section)
    THEN Get(Get(trans, lang), section)
    ELSE NewStore(StoreFile(lang, section))

\* TranslationData.addTranslation: translations afterwards, and whether it raised
DataAddTranslation(trans, lang, section, path, value, ow, keepMarkdown) ==
    LET r == LangNsAddTranslation(TargetStore(trans, lang, section), path, value,
                                  ow, keepMarkdown)
    IN  [trans |-> AddTranslations(trans, lang, section, r.store),
         raised |-> r.raised]

\* the stores in the order TranslationData.save visits them
RECURSIVE SaveOrderFrom(_, _)
SaveOrderFrom(trans, i) ==
    IF i > Len(trans) THEN <<>>
    ELSE [j \in 1..Len(trans[i][2]) |-> trans[i][2][j][2]]
         \o SaveOrderFrom(trans, i + 1)

SaveOrder(trans) == SaveOrderFrom(trans, 1)

\* TranslationData.save: the stores are saved in order, up to the first raise
RECURSIVE SaveFrom(_, _, _, _)
SaveFrom(stores, i, d, w) ==
    IF i > Len(stores) THEN [disk |-> d, written |-> w, raised |-> FALSE]
    ELSE LET r == LangNsSave(stores[i], d, w)
         IN  IF r.raised THEN r ELSE SaveFrom(stores, i + 1, r.disk, r.written)

DataSave(trans, d) == SaveFrom(SaveOrder(trans), 1, d, {})

\* the (lang, section) pairs that have a store
RegisteredPairs(trans) ==
    UNION {{<<trans[i][1], trans[i][2][j][1]>> : j \in 1..Len(trans[i][2])} :
              i \in 1..Len(trans)}

StoreOf(trans, ls) == Get(Get(trans, ls[1]), ls[2])

----------------------------------------------------------------------------
(* The inputs of a run: the locales root and the spreadsheet rows *)

Sections == {"home"}
Paths == {"title", "text"}

\* a data row: the cells at row[3], row[4], row[5], row[6]
Rows == [section : Sections, path : Paths, fr : FrCells, en : EnCells]

NoFiles == [f \in {} |-> BadYaml]

\* the locales roots a run may start from
Disks ==
    { \* no sub-directory, no file
      [dirs |-> {}, files |-> NoFiles],
      \* the language directories, no file
      [dirs |-> {"fr", "en"}, files |-> NoFiles],
      \* two files written by an earlier run or by hand
      [dirs |-> {"fr", "en"},
       files |-> (<<"fr", "home">> :> Yaml(TRUE,
                      << <<"title", [text |-> Ancien, style |-> "plain"]>>,
                         <<"text", [text |-> Ancien, style |-> "folded"]>> >>))
                 @@ (<<"en", "end">> :> Yaml(FALSE,
                      << <<"text", [text |-> OverLimit, style |-> "plain"]>> >>))],
      \* one language directory only, with one file
      [dirs |-> {"fr"},
       files |-> (<<"fr", "end">> :> Yaml(TRUE,
                      << <<"title", [text |-> Welcome, style |-> "plain"]>> >>))],
      \* a file that does not parse
      [dirs |-> {"fr", "en"},
       files |-> (<<"en", "home">> :> BadYaml)
                 @@ (<<"fr", "home">> :> Yaml(TRUE,
                      << <<"title", [text |-> Ancien, style |-> "plain"]>> >>))] }

----------------------------------------------------------------------------
(* FillLocalesTranslations and generate_libelles *)

\* the orders in which glob may list the files
GlobOrders(d) ==
    {o \in [1..Cardinality(DOMAIN d.files) -> DOMAIN d.files] :
        \A i, j \in DOMAIN o : o[i] = o[j] => i = j}

\* the loop of FillLocalesTranslations.loadCurrentTranslations
RECURSIVE LoadFrom(_, _, _, _)
LoadFrom(order, i, d, trans) ==
    IF i > Len(order) THEN [trans |-> trans, raised |-> FALSE]
    ELSE LET translationFile == order[i]
             lang == translationFile[1]
             section == translationFile[2]
             r == LangNsLoad(NewStore(translationFile), d.files[translationFile])
         IN  IF r.raised THEN [trans |-> trans, raised |-> TRUE]
             ELSE LoadFrom(order, i + 1, d,
                           AddTranslations(trans, lang, section, r.store))

\* whether a row's cell leads to a call of allTranslations.addTranslation
CellIsSet(cell) == cell # NoneCell

\* variant of AfterRow that logs the exception and goes on with the next row
AfterRowSwallowed(raised) == "rows"

\* where generate_libelles stands after a row: an exception leaves the loop and
\* is raised again up to the caller
AfterRow(raised) == IF raised THEN "raised_rows" ELSE "rows"

\* the body of the row loop of addTranslationsFromExcel: translations
\* afterwards, the calls made, and whether one raised
RowBody(trans, row, ow) ==
    LET keepMarkdown == FALSE
        frCalled == CellIsSet(row.fr)
        afterFr == IF frCalled
                   THEN DataAddTranslation(trans, "fr", row.section, row.path,
                                           row.fr, ow, keepMarkdown)
                   ELSE [trans |-> trans, raised |-> FALSE]
        enCalled == ~afterFr.raised /\ CellIsSet(row.en)
        afterEn == IF enCalled
                   THEN DataAddTranslation(afterFr.trans, "en", row.section,
                                           row.path, row.en, ow, keepMarkdown)
                   ELSE afterFr
    IN  [trans |-> afterEn.trans, frCalled |-> frCalled, enCalled |-> enCalled,
         raised |-> afterEn.raised]

RunIdle ==
    /\ overwrite = FALSE
    /\ disk = [dirs |-> {}, files |-> NoFiles]
    /\ translations = <<>>
    /\ pc = "idle"
    /\ disk0 = disk
    /\ written = {}
    /\ log = <<>>
    /\ prev = <<>>

ReplaceIdle ==
    /\ rin = <<>>
    /\ rstr = <<>>
    /\ rpc = "idle"
    /\ rk = 0
    /\ rcnt = 0
    /\ rtrace = <<>>

Init ==
    /\ ReplaceIdle
    /\ overwrite \in BOOLEAN
    /\ disk \in Disks
    /\ translations = <<>>
    /\ pc = "load"
    /\ disk0 = disk
    /\ written = {}
    /\ log = <<>>
    /\ prev = <<>>

\* task.loadCurrentTranslations()
LoadCurrentTranslations ==
    /\ pc = "load"
    /\ \E order \in GlobOrders(disk) :
           LET r == LoadFrom(order, 1, disk, translations)
           IN  /\ translations' = r.trans
               /\ pc' = IF r.raised THEN "raised_load" ELSE "rows"
    /\ prev' = translations'
    /\ UNCHANGED <<overwrite, disk, disk0, written, log, rvars>>

\* openpyxl.load_workbook or workbook["Widgets"] raises
WorkbookUnreadable ==
    /\ pc = "rows"
    /\ log = <<>>
    /\ pc' = "raised_rows"
    /\ UNCHANGED <<overwrite, disk, translations, disk0, written, log, prev, rvars>>

\* one iteration of the row loop of addTranslationsFromExcel
ProcessRow ==
    /\ pc = "rows"
    /\ Len(log) < MaxRows
    /\ \E row \in Rows :
           LET r == RowBody(translations, row, overwrite)
           IN  /\ translations' = r.trans
               /\ log' = Append(log, [row |-> row, frCalled |-> r.frCalled,
                                      enCalled |-> r.enCalled, raised |-> r.raised])
               /\ pc' = AfterRow(r.raised)
    /\ prev' = translations
    /\ UNCHANGED <<overwrite, disk, disk0, written, rvars>>

\* the rows are exhausted: task.saveAllTranslations()
SaveAllTranslations ==
    /\ pc = "rows"
    /\ LET r == DataSave(translations, disk)
       IN  /\ disk' = r.disk
           /\ written' = r.written
           /\ pc' = IF r.raised THEN "raised_save" ELSE "done"
    /\ UNCHANGED <<overwrite, translations, disk0, log, prev, rvars>>

Next ==
    \/ LoadCurrentTranslations
    \/ WorkbookUnreadable
    \/ ProcessRow
    \/ SaveAllTranslations

Spec == Init /\ [][Next]_vars

----------------------------------------------------------------------------
(* ValueReplacer.replace, step by step, on bounded inputs *)

Fragments ==
    { boldNotation, obliqueNotation, greenNotation, redNotation,
      <<"_">>, <<"*">>, <<"a">>, <<NL>>, <<"r", "e", "d", "_">> }

RECURSIVE Concats(_)
Concats(n) ==
    IF n = 0 THEN {<<>>}
    ELSE LET shorter == Concats(n - 1)
         IN  shorter \cup {s \o f : s \in shorter, f \in Fragments}

ReplaceInputs == Concats(MaxFrags)

ReplaceInit ==
    /\ RunIdle
    /\ rin \in ReplaceInputs
    /\ rstr = rin
    /\ rpc = "nl"
    /\ rk = 0
    /\ rcnt = 0
    /\ rtrace = <<>>

\* replacedStr = string.replace("\n", "<br />")
ReplaceNewlines ==
    /\ rpc = "nl"
    /\ rstr' = ReplaceAll(rstr, <<NL>>, brTag)
    /\ rtrace' = <<rstr'>>
    /\ rpc' = "check"
    /\ rk' = 1
    /\ UNCHANGED <<rin, rcnt, runvars>>

\* replaceStartEnd is entered: its guard holds and the loop starts
EnterLoop ==
    /\ rpc = "check"
    /\ ShouldReplace(rstr, Rules[rk].notation)
    /\ rpc' = "loop"
    /\ rcnt' = 0
    /\ UNCHANGED <<rin, rstr, rk, rtrace, runvars>>

\* what follows the return of the rk-th replaceStartEnd call
Return(result) ==
    /\ rtrace' = Append(rtrace, result)
    /\ IF rk = NRules
       THEN rpc' = "done" /\ rk' = rk
       ELSE rpc' = "check" /\ rk' = rk + 1

\* replaceStartEnd whose guard fails: the string is returned as it came
SkipLoop ==
    /\ rpc = "check"
    /\ ~ShouldReplace(rstr, Rules[rk].notation)
    /\ Return(rstr)
    /\ UNCHANGED <<rin, rstr, rcnt, runvars>>

LoopIter ==
    /\ rpc = "loop"
    /\ In(Rules[rk].notation, rstr)
    /\ rstr' = LoopBody(rstr, Rules[rk].notation, Rules[rk].start,
                        Rules[rk].end, rcnt)
    /\ rcnt' = rcnt + 1
    /\ UNCHANGED <<rin, rpc, rk, rtrace, runvars>>

LoopExit ==
    /\ rpc = "loop"
    /\ ~In(Rules[rk].notation, rstr)
    /\ Return(rstr)
    /\ UNCHANGED <<rin, rstr, rcnt, runvars>>

ReplaceNext ==
    \/ ReplaceNewlines
    \/ EnterLoop
    \/ SkipLoop
    \/ LoopIter
    \/ LoopExit

ReplaceSpec == ReplaceInit /\ [][ReplaceNext]_vars

\* the stepwise run and the operator compute the same string
ReplaceAgrees == rpc = "done" => rstr = replace(rin)

----------------------------------------------------------------------------
(* Properties of ValueReplacer *)

Odd(n) == n % 2 = 1

\* Reference rewriting of one notation: a single pass from the left that
\* replaces the occurrences met, the 1st, 3rd, ... by the start tag and the
\* 2nd, 4th, ... by the end tag, and copies every other character.
RECURSIVE AltScanFrom(_, _, _, _, _, _)
AltScanFrom(s, n, st, en, i, seen) ==
    IF i > Len(s) THEN <<>>
    ELSE IF StartsAt(s, n, i)
         THEN (IF seen % 2 = 0 THEN st ELSE en)
              \o AltScanFrom(s, n, st, en, i + Len(n), seen + 1)
         ELSE <<s[i]>> \o AltScanFrom(s, n, st, en, i + 1, seen)

AltScan(s, k) == AltScanFrom(s, Rules[k].notation, Rules[k].start, Rules[k].end, 1, 0)

\* every position at which n matches in s, overlapping matches included
Matches(s, n) == {i \in 1..Len(s) : StartsAt(s, n, i)}

\* no match of another notation shares a character with a match of notation k
NoOverlap(s, k) ==
    \A j \in 1..NRules : j # k =>
        \A p \in Matches(s, Rules[j].notation) :
            \A q \in Matches(s, Rules[k].notation) :
                \/ p + Len(Rules[j].notation) - 1 < q
                \/ q + Len(Rules[k].notation) - 1 < p

\* the calls of replaceStartEnd that have returned
Returned == 1..(Len(rtrace) - 1)

\* C5 as stated: a notation whose delimiter occurs an odd number of times in
\* the input of replace keeps all its occurrences in the output of replace, and
\* none of its tags is emitted, whatever the other notations do.
C5_OddInputUntouched ==
    rpc = "done" =>
        \A k \in 1..NRules :
            Odd(Count(rin, Rules[k].notation)) =>
                /\ Count(rstr, Rules[k].notation) = Count(rin, Rules[k].notation)
                /\ ~In(Rules[k].start, rstr)

\* C5 amended: a notation whose delimiter occurs an odd number of times in the
\* string its replaceStartEnd call receives (the input after the newline step and
\* the earlier notations' calls) is returned unchanged by that call, and the
\* replacement loop is never entered for it.
C5_OddStageUntouched ==
    /\ \A k \in Returned :
           Odd(Count(rtrace[k], Rules[k].notation)) => rtrace[k + 1] = rtrace[k]
    /\ rpc = "loop" => ~Odd(Count(rtrace[rk], Rules[rk].notation))

\* C5 witness: replace has returned, the oblique call rewrote the string, and
\* the red call received an odd number of "_red_" and some "_red_" to keep.
C5_Witness ==
    /\ rpc = "done"
    /\ rtrace[3] # rtrace[2]
    /\ Odd(Count(rtrace[4], redNotation))

\* C6: a call of replaceStartEnd that receives an even, positive number of
\* occurrences of its notation makes exactly that many iterations, returns the
\* reference rewriting (start and end tags alternating from the left, every
\* other character kept in place) and leaves no occurrence of the notation; in
\* replace, when no other notation's match overlaps the notation's matches in
\* the input, its call receives the input's occurrences and the output of
\* replace holds none of them.
C6_EvenAlternates ==
    /\ rpc = "loop" =>
           rcnt + Count(rstr, Rules[rk].notation)
               = Count(rtrace[rk], Rules[rk].notation)
    /\ \A k \in Returned :
           LET n == Rules[k].notation
               c == Count(rtrace[k], n)
           IN  (c > 0 /\ ~Odd(c)) =>
                   /\ rtrace[k + 1] = AltScan(rtrace[k], k)
                   /\ ~In(n, rtrace[k + 1])
                   /\ Count(rtrace[k + 1], Rules[k].start)
                          = Count(rtrace[k], Rules[k].start) + (c \div 2)
    /\ rpc = "done" =>
           \A k \in 1..NRules :
               LET n == Rules[k].notation
                   c == Count(rtrace[1], n)
               IN  (c > 0 /\ ~Odd(c) /\ NoOverlap(rtrace[1], k)) =>
                       /\ Count(rtrace[k], n) = c
                       /\ rtrace[k + 1] = AltScan(rtrace[k], k)
                       /\ ~In(n, rstr)

\* C6 witness: replace has returned after rewriting two "__" that no other
\* notation overlaps, in a string that holds other text.
C6_Witness ==
    /\ rpc = "done"
    /\ Count(rtrace[1], obliqueNotation) = 2
    /\ NoOverlap(rtrace[1], 2)
    /\ rtrace[3] # rtrace[2]
    /\ In(<<"a">>, rin)

----------------------------------------------------------------------------
(* Properties of a run *)

Ended == {"done", "raised_load", "raised_rows", "raised_save"}

\* the row loop is running and may read another row
MoreRows == pc = "rows" /\ Len(log) < MaxRows

LastRow == log[Len(log)]

\* whether the last row made the call for lang
Called(e, lang) == IF lang = "fr" THEN e.frCalled ELSE e.enCalled

CellOf(row, lang) == IF lang = "fr" THEN row.fr ELSE row.en

IsRegistered(trans, ls) == ls \in RegisteredPairs(trans)

HasKey(trans, ls, path) ==
    IsRegistered(trans, ls) /\ Has(StoreOf(trans, ls).data, path)

\* C1 as stated: the run on the root without files or sub-directories, with
\* the one row (home, title, **Bienvenue**, Welcome), ends without raising and
\* leaves exactly fr/home.yml and en/home.yml, with the title entries.
C1_EndToEnd ==
    ( /\ disk0 = [dirs |-> {}, files |-> NoFiles]
      /\ pc \in Ended
      /\ Len(log) = 1
      /\ log[1].row = [section |-> "home", path |-> "title",
                       fr |-> StrCell(Bienvenue), en |-> StrCell(Welcome)] )
    => /\ pc = "done"
       /\ DOMAIN disk.files = {<<"fr", "home">>, <<"en", "home">>}
       /\ disk.files[<<"fr", "home">>].entries
              = << <<"title", PyStr(StrongBienvenue)>> >>
       /\ disk.files[<<"en", "home">>].entries = << <<"title", PyStr(Welcome)>> >>

\* the effect C2 states for one call, from the store before to the result
OverwriteEffect(before, r, path, ow, expected) ==
    IF Has(before.data, path) /\ ~ow
    THEN r.store = before /\ ~r.raised
    ELSE /\ ~r.raised
         /\ r.store.modified
         /\ Has(r.store.data, path)
         /\ Get(r.store.data, path).text = expected

\* C2: a call of TranslationLangNs.addTranslation for a key the store holds
\* leaves data and modified as they were when overwrite is false, and stores
\* the processed value and sets modified when overwrite is true; for a key the
\* store does not hold, the processed value is stored and modified set, whatever
\* overwrite is.  Stated of the calls the last row made (keepMarkdown false,
\* the run's overwrite), and of a call with keepMarkdown true and either
\* overwrite on every store of a state in which a row may follow.
C2_OverwriteSemantics ==
    /\ (log # <<>>) =>
           \A lang \in {"fr", "en"} :
               LET ls == <<lang, LastRow.row.section>>
                   path == LastRow.row.path
                   cell == CellOf(LastRow.row, lang)
                   had == HasKey(prev, ls, path)
                   now == StoreOf(translations, ls)
               IN  (Called(LastRow, lang) /\ cell.t = "str") =>
                       /\ (had /\ ~overwrite) => now = StoreOf(prev, ls)
                       /\ (~had \/ overwrite) =>
                              /\ now.modified
                              /\ Has(now.data, path)
                              /\ cell.s = Bienvenue =>
                                     Get(now.data, path).text = StrongBienvenue
                              /\ cell.s \in {Welcome, OverLimit, <<>>} =>
                                     Get(now.data, path).text = cell.s
    /\ MoreRows =>
           \A ls \in RegisteredPairs(translations), path \in Paths, ow \in BOOLEAN :
               LET before == StoreOf(translations, ls)
               IN  OverwriteEffect(before,
                       LangNsAddTranslation(before, path, StrCell(SalutNom), ow, TRUE),
                       path, ow, Salut \o nicknameToken \o <<NL>>)

\* C2 witness: with overwrite off, the last row called addTranslation for a key
\* its store had loaded from disk, and the store is still unmodified.
C2_Witness ==
    /\ pc = "rows"
    /\ ~overwrite
    /\ log # <<>>
    /\ LastRow.frCalled
    /\ HasKey(prev, <<"fr", LastRow.row.section>>, LastRow.row.path)
    /\ ~StoreOf(translations, <<"fr", LastRow.row.section>>).modified

\* C3 as stated: once save has run, a store's file was written if and only if
\* the store is modified; a file that was not written is as it was before the
\* run.
C3_WrittenIffModified ==
    pc \in {"done", "raised_save"} =>
        /\ \A ls \in RegisteredPairs(translations) :
               StoreOf(translations, ls).file \in written
                   <=> StoreOf(translations, ls).modified
        /\ \A f \in DOMAIN disk0.files :
               f \notin written => (f \in DOMAIN disk.files /\ disk.files[f] = disk0.files[f])

\* the cells of the calls made for (lang, section, path), in row order
RECURSIVE CallsFor(_, _, _, _)
CallsFor(lang, section, path, n) ==
    IF n = 0 THEN <<>>
    ELSE LET e == log[n]
             rest == CallsFor(lang, section, path, n - 1)
         IN  IF e.row.section = section /\ e.row.path = path /\ Called(e, lang)
             THEN Append(rest, CellOf(e.row, lang))
             ELSE rest

\* the text a file held under a key before the run, <<"absent">> if none
OnDiskBefore(ls, path) ==
    IF ls \in DOMAIN disk0.files /\ Has(disk0.files[ls].entries, path)
    THEN <<"text", Get(disk0.files[ls].entries, path).text>>
    ELSE <<"absent">>

\* the text the stores hold under a key, <<"absent">> if none
Held(trans, ls, path) ==
    IF HasKey(trans, ls, path)
    THEN <<"text", Get(StoreOf(trans, ls).data, path).text>>
    ELSE <<"absent">>

\* C4: as long as no call has raised, what the stores hold for a (language,
\* section, path) is decided by the calls made for it in row order: with
\* overwrite on, the processed value of the last call; with overwrite off, the
\* value loaded from disk if there was one, else the processed value of the
\* first call; without a call, what was loaded.  After a run that ended
\* without raising, a file written by save holds that value.
C4_LastWriteWins ==
    pc \in {"rows", "done", "raised_save"} =>
        \A lang \in {"fr", "en"}, section \in Sections, path \in Paths :
            LET ls == <<lang, section>>
                calls == CallsFor(lang, section, path, Len(log))
                before == OnDiskBefore(ls, path)
                expected ==
                    IF calls = <<>> THEN before
                    ELSE IF overwrite
                         THEN <<"text", Processed(calls[Len(calls)].s, FALSE)>>
                         ELSE IF before # <<"absent">> THEN before
                              ELSE <<"text", Processed(calls[1].s, FALSE)>>
            IN  /\ Held(translations, ls, path) = expected
                /\ (pc = "done" /\ ls \in written) =>
                       /\ Has(disk.files[ls].entries, path) <=> expected # <<"absent">>
                       /\ expected # <<"absent">> =>
                              Get(disk.files[ls].entries, path).text = expected[2]

\* C4 witness: a run with overwrite on ended without raising after two rows
\* gave different French values to a key that was loaded from disk.
C4_Witness ==
    /\ pc = "done"
    /\ overwrite
    /\ Len(log) = 2
    /\ log[1].row.path = log[2].row.path
    /\ log[1].frCalled /\ log[2].frCalled
    /\ log[1].row.fr # log[2].row.fr
    /\ OnDiskBefore(<<"fr", "home">>, log[1].row.path) # <<"absent">>
    /\ <<"fr", "home">> \in written

\* C7 as stated: for each row and each language, the call is made if and only
\* if the language's cell is neither missing nor empty (a call that raises ends
\* the row, so the English cell is judged only when the French call returned).
C7_RowRouting ==
    \A i \in 1..Len(log) :
        LET e == log[i]
            filled(cell) == cell # NoneCell /\ cell # StrCell(<<>>)
        IN  /\ e.frCalled <=> filled(e.row.fr)
            /\ (e.enCalled \/ ~e.raised) => (e.enCalled <=> filled(e.row.en))

\* C8 as stated: every value held in a store is marked as a folded or block
\* scalar if and only if its text has a newline or more than 76 characters.
C8_ScalarStyle ==
    \A ls \in RegisteredPairs(translations) :
        \A i \in 1..Len(StoreOf(translations, ls).data) :
            LET v == StoreOf(translations, ls).data[i][2]
            IN  (v.style # "plain") <=> (In(<<NL>>, v.text) \/ Len(v.text) > FoldLimit)

\* C9: load, rows, save happen in that order; nothing is written before the
\* rows are exhausted; a raise while loading or in a call ends the run there:
\* no row is processed after it, save is not reached and the root is as it was.
C9_AbortBeforeWrite ==
    /\ pc \in {"load", "rows", "raised_load", "raised_rows"} =>
           disk = disk0 /\ written = {}
    /\ pc \in {"load", "raised_load"} => log = <<>>
    /\ pc = "load" => translations = <<>>
    /\ \A i \in 1..Len(log) :
           log[i].raised => (i = Len(log) /\ pc = "raised_rows")

\* C9 witness: the second row raised after the first had modified a store.
C9_Witness ==
    /\ pc = "raised_rows"
    /\ Len(log) = 2
    /\ log[2].raised
    /\ \E ls \in RegisteredPairs(translations) : StoreOf(translations, ls).modified

\* what one call for (lang, section, path) may change, from before to after
FrameOfCall(before, after, lang, section, path) ==
    LET was == RegisteredPairs(before)
        is == RegisteredPairs(after)
    IN  /\ \A ls \in was :
               LET old == StoreOf(before, ls)
                   new == IF ls \in is THEN StoreOf(after, ls) ELSE NewStore(<<>>)
               IN  /\ ls \in is
                   /\ new.file = old.file
                   /\ ls # <<lang, section>> => new = old
                   /\ \A k \in Keys(old.data) :
                          /\ Has(new.data, k)
                          /\ k # path => Get(new.data, k) = Get(old.data, k)
        /\ \A ls \in is \ was :
               /\ ls = <<lang, section>>
               /\ StoreOf(after, ls).file = <<lang, section>>
               /\ Keys(StoreOf(after, ls).data) \subseteq {path}

\* C10: a call of TranslationData.addTranslation changes at most the store of
\* its (lang, section), and there at most the entry under path and modified;
\* no key is removed; a store is created, empty and bound to lang/section.yml,
\* only for a pair that had none.  Stated of the calls of the last row, and of
\* one more overwriting call for any language, section and path in every state
\* in which a row may follow.
C10_Frame ==
    /\ (log # <<>>) =>
           LET targets == {<<lang, LastRow.row.section>> :
                             lang \in {l \in {"fr", "en"} : Called(LastRow, l)}}
               path == LastRow.row.path
           IN  /\ \A ls \in RegisteredPairs(prev) :
                      /\ IsRegistered(translations, ls)
                      /\ StoreOf(translations, ls).file = StoreOf(prev, ls).file
                      /\ ls \notin targets
                             => StoreOf(translations, ls) = StoreOf(prev, ls)
                      /\ \A k \in Keys(StoreOf(prev, ls).data) :
                             /\ Has(StoreOf(translations, ls).data, k)
                             /\ k # path => Get(StoreOf(translations, ls).data, k)
                                                = Get(StoreOf(prev, ls).data, k)
               /\ \A ls \in RegisteredPairs(translations) \ RegisteredPairs(prev) :
                      /\ ls \in targets
                      /\ StoreOf(translations, ls).file = ls
                      /\ Keys(StoreOf(translations, ls).data) \subseteq {path}
    /\ MoreRows =>
           \A lang \in {"fr", "en"}, section \in {"home", "end"}, path \in Paths :
               FrameOfCall(translations,
                           DataAddTranslation(translations, lang, section, path,
                                              StrCell(Welcome), TRUE, FALSE).trans,
                           lang, section, path)

\* C10 witness: the last row's French call changed a store loaded from disk
\* while another loaded store was registered.
C10_Witness ==
    /\ pc = "rows"
    /\ log # <<>>
    /\ LastRow.frCalled /\ ~LastRow.enCalled
    /\ IsRegistered(prev, <<"fr", "home">>)
    /\ IsRegistered(prev, <<"en", "end">>)
    /\ StoreOf(translations, <<"fr", "home">>) # StoreOf(prev, <<"fr", "home">>)

====
